---- MODULE Spec2Model ----
(***************************************************************************)
(* Model of the Tantrix matching core, src/match.py: the Normalizer        *)
(* (preprocess_input), the Rotation Matcher (match_pattern,                *)
(* find_matching_type), the Variant Selector (check_variants), the         *)
(* Canonicalizer (get_dist, shift_tile, sort_sol) and the catalog lookup   *)
(* (get_tile_number over tiles_complete).                                  *)
(*                                                                         *)
(* Python strings are TLA+ strings; a Python list of one-character         *)
(* strings (what shift_tile returns) is written as the string of the same  *)
(* characters, which is what ''.join makes of it at match.py:225.  A raw   *)
(* observation entry is a tuple: <<c>> for the integer c (<<0>> for the    *)
(* absent marker) and <<a, b>> for the list [a, b].  A raised exception    *)
(* is the name of its class in the variable `raised`.                      *)
(***************************************************************************)
EXTENDS Integers, Sequences, FiniteSets, TLC

VARIABLES
    tiles_complete,     \* the module-level list of the 56 tile codes
    pc,                 \* position of the caller (main / process_crops)
    raw_input,          \* the raw observation handed to preprocess_input
    selected_variants,  \* the candidates preprocess_input returned
    input_pattern,      \* the template selector handed to check_variants
    matched_variant,    \* what check_variants returned (a full code or None)
    tile_number,        \* what get_tile_number returned
    raised,             \* "" or the exception that ended the run
    offset,             \* the offset last handed to shift_tile / rotate_string
    shifted,            \* the code rotated by `offset`
    standardized,       \* sort_sol of the code under study
    restandardized,     \* sort_sol applied to `standardized`
    compressed_input    \* the run-compressed form handed to match_pattern

vars == <<tiles_complete, pc, raw_input, selected_variants, input_pattern,
          matched_variant, tile_number, raised, offset, shifted, standardized,
          restandardized, compressed_input>>

-----------------------------------------------------------------------------
(* Bounds of the model *)

\* number of entries of a raw observation drawn at Init (besides main's own)
ObsLen == 2

-----------------------------------------------------------------------------
(* Values *)

\* Python's None, where a string is expected
None == "None"

\* Python's None, where a tile number is expected
NoNumber == -1

\* the colors of the input contract
Colors == 1 .. 4

\* str(col) for a color code
str(col) ==
    CASE col = 0 -> "0"
      [] col = 1 -> "1"
      [] col = 2 -> "2"
      [] col = 3 -> "3"
      [] col = 4 -> "4"

\* s[r] for a Python string s and a 0-based index r
At(s, r) == SubSeq(s, r + 1, r + 1)

\* the set of characters of a string
CharsOf(s) == { At(s, r) : r \in 0 .. Len(s) - 1 }

\* the catalog with a typing slip in its sixth entry (121332 typed 121322)
tiles_typo ==
   << "112323", "212313", "131322", "112332", "131223", "121322", "113232",
      "112233", "121323", "113223", "131232", "221331", "113322", "121233",
      "232344", "242343", "224343", "332442", "223434", "242433", "232443",
      "223344", "323424", "223443", "232434", "224334", "224433", "242334",
      "114343", "313414", "131344", "114334", "131443", "141334", "113434",
      "114433", "141343", "113443", "131434", "331441", "113344", "141433",
      "112424", "212414", "141422", "112442", "141224", "121442", "114242",
      "112244", "121424", "114224", "141242", "221441", "114422", "121244" >>

\* the literal that initializes tiles_complete; entry n of the Python list is
\* entry n + 1 here
TilesLiteral ==
   << "112323", "212313", "131322", "112332", "131223", "121332", "113232",
      "112233", "121323", "113223", "131232", "221331", "113322", "121233",
      "232344", "242343", "224343", "332442", "223434", "242433", "232443",
      "223344", "323424", "223443", "232434", "224334", "224433", "242334",
      "114343", "313414", "131344", "114334", "131443", "141334", "113434",
      "114433", "141343", "113443", "131434", "331441", "113344", "141433",
      "112424", "212414", "141422", "112442", "141224", "121442", "114242",
      "112244", "121424", "114224", "141242", "221441", "114422", "121244" >>

\* a returned value, or a raised exception
Return(v) == [raised |-> "", value |-> v]
Raise(e, v) == [raised |-> e, value |-> v]

-----------------------------------------------------------------------------
(* Canonicalizer *)

\* the indices list of get_dist: the positions r in range(6) with tile[r] == str(col)
Indices(tile, col) ==
    SelectSeq([i \in 1 .. 6 |-> i - 1], LAMBDA r : At(tile, r) = str(col))

\* get_dist returning the index of the second occurrence
get_dist_second(tile, col) ==
    IF str(col) \notin CharsOf(tile)
    THEN Return(<<0, 0>>)
    ELSE IF Len(tile) < 6
    THEN Raise("IndexError", <<0, 0>>)
    ELSE LET indices == Indices(tile, col) IN
         IF Len(indices) < 2
         THEN Raise("IndexError", <<0, 0>>)
         ELSE Return(<<indices[2] - indices[1], indices[2]>>)

\* get_dist(tile, col): (distance, first index), or IndexError when tile[r]
\* or indices[1] is out of range
get_dist(tile, col) ==
    IF str(col) \notin CharsOf(tile)
    THEN Return(<<0, 0>>)
    ELSE IF Len(tile) < 6
    THEN Raise("IndexError", <<0, 0>>)
    ELSE LET indices == Indices(tile, col) IN
         IF Len(indices) < 2
         THEN Raise("IndexError", <<0, 0>>)
         ELSE Return(<<indices[2] - indices[1], indices[1]>>)

\* the characters tile[(i + offset) % 6] for i in range(6), joined
RECURSIVE shift_from(_, _, _)
shift_from(tile, off, i) ==
    IF i = 6 THEN "" ELSE At(tile, (i + off) % 6) \o shift_from(tile, off, i + 1)

\* shift_tile(tile, offset)
shift_tile(tile, off) == shift_from(tile, off, 0)

\* the loop of sort_sol from color j on
RECURSIVE sort_sol_from(_, _)
sort_sol_from(tile, j) ==
    IF j > 3
    THEN Return(tile)
    ELSE LET d == get_dist(tile, j)
             distance == d.value[1]
             index == d.value[2]
         IN  IF d.raised # ""
             THEN Raise(d.raised, tile)
             ELSE IF distance \in {1, 2, 4, 5}
             THEN IF distance < 4
                  THEN Return(shift_tile(tile, index))
                  ELSE Return(shift_tile(tile, index + distance))
             ELSE sort_sol_from(tile, j + 1)

\* sort_sol that rotates by the distance where it should rotate by the index
sort_sol_by_distance(tile) ==
    LET d == get_dist(tile, 1) IN
    IF d.raised # "" THEN Raise(d.raised, tile)
    ELSE IF d.value[1] \in {1, 2, 4, 5}
    THEN Return(shift_tile(tile, d.value[1]))
    ELSE sort_sol_from(tile, 2)

\* sort_sol that rotates to the first occurrence whatever the distance
sort_sol_first(tile) ==
    LET d == get_dist(tile, 1) IN
    IF d.raised # "" THEN Raise(d.raised, tile)
    ELSE IF d.value[1] \in {1, 2, 4, 5}
    THEN Return(shift_tile(tile, d.value[2]))
    ELSE sort_sol_from(tile, 2)

\* sort_sol(tile)
sort_sol(tile) == sort_sol_from(tile, 1)

\* tiles_complete.index(code): the 0-based position, or ValueError
Index(code) ==
    IF \E n \in 1 .. Len(tiles_complete) : tiles_complete[n] = code
    THEN Return((CHOOSE n \in 1 .. Len(tiles_complete) :
                    /\ tiles_complete[n] = code
                    /\ \A m \in 1 .. n - 1 : tiles_complete[m] # code) - 1)
    ELSE Raise("ValueError", NoNumber)

\* get_tile_number(matched_variant): the tile number, None for None, or the
\* exception of sort_sol or of the lookup
get_tile_number(matched) ==
    IF matched # None
    THEN LET s == sort_sol(matched) IN
         IF s.raised # "" THEN Raise(s.raised, NoNumber) ELSE Index(s.value)
    ELSE Return(NoNumber)

-----------------------------------------------------------------------------
(* Shape Template Registry and Rotation Matcher *)

\* expand_pattern with the clc expansion typed as the cxx one
expand_pattern_slip(pattern) ==
    CASE pattern = "abc" -> "aabbcc"
      [] pattern = "abcbc" -> "aabcbc"
      [] pattern = "abcb" -> "aabcbc"
      [] pattern = "abacbc" -> "abacbc"
      [] OTHER -> pattern

\* expand_pattern(pattern): expansions.get(pattern, pattern)
expand_pattern(pattern) ==
    CASE pattern = "abc" -> "aabbcc"
      [] pattern = "abcbc" -> "aabcbc"
      [] pattern = "abcb" -> "aabccb"
      [] pattern = "abacbc" -> "abacbc"
      [] OTHER -> pattern

\* the zip loop of match_pattern from position i on: the final mapping, or
\* failed on a contradiction or a digit bound to two letters
RECURSIVE bind(_, _, _, _, _)
bind(compressed, pattern, i, mapping, used_values) ==
    IF i = Len(pattern)
    THEN [failed |-> FALSE, mapping |-> mapping]
    ELSE LET char_pat == At(pattern, i)
             char_inp == At(compressed, i)
         IN  IF char_pat \in DOMAIN mapping
             THEN IF mapping[char_pat] # char_inp
                  THEN [failed |-> TRUE, mapping |-> mapping]
                  ELSE bind(compressed, pattern, i + 1, mapping, used_values)
             ELSE IF char_inp \in used_values
                  THEN [failed |-> TRUE, mapping |-> mapping]
                  ELSE bind(compressed, pattern, i + 1,
                            mapping @@ (char_pat :> char_inp),
                            used_values \cup {char_inp})

\* ''.join(mapping[c] for c in expanded), from position i on
RECURSIVE substitute(_, _, _)
substitute(mapping, expanded, i) ==
    IF i = Len(expanded)
    THEN ""
    ELSE mapping[At(expanded, i)] \o substitute(mapping, expanded, i + 1)

\* match_pattern(compressed_input, pattern): the expanded code, or None
match_pattern(compressed, pattern) ==
    IF Len(compressed) # Len(pattern)
    THEN None
    ELSE LET b == bind(compressed, pattern, 0, <<>>, {}) IN
         IF b.failed
         THEN None
         ELSE substitute(b.mapping, expand_pattern(pattern), 0)

\* rotate_string(s, n): s[n:] + s[:n]
rotate_string(s, n) == SubSeq(s, n + 1, Len(s)) \o SubSeq(s, 1, n)

\* the shift loop of find_matching_type for one pattern, from `shift` on
RECURSIVE match_shifts(_, _, _)
match_shifts(compressed, pattern, shift) ==
    IF shift >= Len(compressed)
    THEN None
    ELSE LET match == match_pattern(rotate_string(compressed, shift), pattern) IN
         IF match # None /\ match # ""
         THEN match
         ELSE match_shifts(compressed, pattern, shift + 1)

\* the pattern loop of find_matching_type, from known_patterns[k] on
RECURSIVE match_patterns(_, _, _)
match_patterns(compressed, known_patterns, k) ==
    IF k > Len(known_patterns)
    THEN None
    ELSE LET match == match_shifts(compressed, known_patterns[k], 0) IN
         IF match # None
         THEN match
         ELSE match_patterns(compressed, known_patterns, k + 1)

\* find_matching_type(compressed_input, input_pattern)
find_matching_type(compressed, pattern) ==
    LET known_patterns ==
            IF pattern = None
            THEN <<"abc", "abcbc", "abcb", "ababcb">>
            ELSE <<pattern>>
    IN  match_patterns(compressed, known_patterns, 1)

\* check_variants that returns the output of the first variant, matched or not
check_variants_first(input_variants, pattern) ==
    IF input_variants = {}
    THEN {None}
    ELSE { find_matching_type(v, pattern) : v \in input_variants }

\* check_variants(input_variants, input_pattern): the first variant that
\* matches, in the enumeration order of the candidate set.  That order is the
\* iteration order of a Python set (match.py:111-115), so the result is any
\* one of the matches; None when no variant matches.
check_variants(input_variants, pattern) ==
    LET hits == { find_matching_type(v, pattern) : v \in input_variants } \ {None}
    IN  IF hits = {} THEN {None} ELSE hits

-----------------------------------------------------------------------------
(* Input Normalizer *)

\* the expansion loop of preprocess_input over cleaned[k ..]: the branches.
\* `expanded` is a Python list; only the set of its elements is read by the
\* set comprehension at match.py:111, so it is a set here.
RECURSIVE expand(_, _, _)
expand(cleaned, k, expanded) ==
    IF k > Len(cleaned)
    THEN expanded
    ELSE LET entry == cleaned[k] IN
         IF Len(entry) = 2
         THEN expand(cleaned, k + 1,
                     UNION { { exp \o <<entry[2], entry[1]>>,
                               exp \o <<entry[1]>>,
                               exp \o <<entry[2]>>,
                               exp \o entry } : exp \in expanded })
         ELSE expand(cleaned, k + 1, { exp \o entry : exp \in expanded })

\* the loop of compress over seq[i ..], `compressed` being what is kept so far
RECURSIVE collapse(_, _, _)
collapse(seq, i, compressed) ==
    IF i > Len(seq)
    THEN compressed
    ELSE IF seq[i] # compressed[Len(compressed)]
         THEN collapse(seq, i + 1, Append(compressed, seq[i]))
         ELSE collapse(seq, i + 1, compressed)

\* compress without the removal of a last element equal to the first
compress_linear(seq) ==
    collapse(seq, 2, <<seq[1]>>)

\* compress(seq) for a non-empty seq (seq[0] raises IndexError on an empty one)
compress(seq) ==
    LET compressed == collapse(seq, 2, <<seq[1]>>) IN
    IF compressed[Len(compressed)] = compressed[1]
    THEN SubSeq(compressed, 1, Len(compressed) - 1)
    ELSE compressed

\* ''.join([str(pos) for pos in variant])
RECURSIVE join(_)
join(variant) ==
    IF variant = <<>> THEN "" ELSE str(Head(variant)) \o join(Tail(variant))

\* max(Counter(variant).values()) for a non-empty variant
MaxCount(variant) ==
    LET count(c) == Cardinality({ i \in DOMAIN variant : variant[i] = c })
    IN  CHOOSE m \in 1 .. Len(variant) :
            /\ \E i \in DOMAIN variant : count(variant[i]) = m
            /\ \A i \in DOMAIN variant : count(variant[i]) <= m

\* the body of preprocess_input, keeping the variants with len(var) < limit:
\* the candidate strings; IndexError from compress on an empty branch,
\* ValueError from max() on an empty variant
preprocess(raw, limit) ==
    LET cleaned == SelectSeq(raw, LAMBDA entry : entry # <<0>>)
        expanded == expand(cleaned, 1, { <<>> })
    IN  IF <<>> \in expanded
        THEN Raise("IndexError", {})
        ELSE LET compressed_variants ==
                     { var \in { compress(variant) : variant \in expanded } :
                           Len(var) < limit }
             IN  IF <<>> \in compressed_variants
                 THEN Raise("ValueError", {})
                 ELSE Return({ join(variant) :
                                 variant \in { var \in compressed_variants :
                                                   MaxCount(var) < 3 } })

\* preprocess_input keeping only the variants shorter than 6
preprocess_input_short(raw) == preprocess(raw, 6)

\* preprocess_input keeping the variants up to length 7
preprocess_input_long(raw) == preprocess(raw, 8)

\* preprocess_input(raw_input)
preprocess_input(raw) == preprocess(raw, 7)

-----------------------------------------------------------------------------
(* The pipeline of main and process_crops *)

\* an entry of a raw observation: a color, the absent marker 0, or a list of
\* two distinct colors
Entries ==
    { <<c>> : c \in 0 .. 4 } \cup
    { <<q[1], q[2]>> : q \in { q \in Colors \X Colors : q[1] # q[2] } }

\* the observation of main
MainInput ==
    << <<3>>, <<4, 3>>, <<3>>, <<1>>, <<0>>, <<4, 1>>, <<1>>, <<4, 3>> >>

\* eight segments with nothing detected
AllAbsent ==
    << <<0>>, <<0>>, <<0>>, <<0>>, <<0>>, <<0>>, <<0>>, <<0>> >>

\* eight segments whose only branch is [3, 3, 4, 4, 3]
Branch33443 ==
    << <<3>>, <<3>>, <<4>>, <<4>>, <<3>>, <<0>>, <<0>>, <<0>> >>

\* eight segments showing four colors, with branches of up to 8 colors
FourColors ==
    << <<1, 2>>, <<3, 4>>, <<1, 2>>, <<3, 4>>, <<0>>, <<0>>, <<0>>, <<0>> >>

\* the observations of six edges with one color detected on each
Unambiguous == [1 .. 6 -> { <<c>> : c \in Colors }]

\* the raw observations drawn: every observation of ObsLen entries, every
\* unambiguous observation of six edges, and four observations of eight
\* entries
RawInputs ==
    [1 .. ObsLen -> Entries] \cup Unambiguous
        \cup {MainInput, AllAbsent, Branch33443, FourColors}

\* the template selectors of process_crops
Registry == { "abc", "abcbc", "abcb", "abacbc" }

\* a selector handed to check_variants: one of the registry, or None for the
\* default list
Selectors == Registry \cup {None}

Idle ==
    /\ tiles_complete = TilesLiteral
    /\ selected_variants = {}
    /\ input_pattern = None
    /\ tile_number = NoNumber
    /\ raised = ""
    /\ offset = 0
    /\ shifted = ""
    /\ standardized = ""
    /\ restandardized = ""
    /\ compressed_input = ""

Init ==
    /\ Idle
    /\ pc = "start"
    /\ raw_input \in RawInputs
    /\ matched_variant = None

\* variants = preprocess_input(result)
PreprocessInput ==
    /\ pc = "start"
    /\ LET r == preprocess_input(raw_input) IN
       /\ selected_variants' = r.value
       /\ raised' = r.raised
       /\ pc' = IF r.raised = "" THEN "preprocessed" ELSE "aborted"
    /\ UNCHANGED <<tiles_complete, raw_input, input_pattern, matched_variant, tile_number,
                   offset, shifted, standardized, restandardized,
                   compressed_input>>

\* matched_variant = check_variants(variants, input_pattern=pattern)
CheckVariants(pattern) ==
    /\ pc = "preprocessed"
    /\ input_pattern' = pattern
    /\ matched_variant' \in check_variants(selected_variants, pattern)
    /\ pc' = "checked"
    /\ UNCHANGED <<tiles_complete, raw_input, selected_variants, tile_number, raised, offset,
                   shifted, standardized, restandardized, compressed_input>>

\* tile_number = get_tile_number(matched_variant)
GetTileNumber ==
    /\ pc = "checked"
    /\ LET r == get_tile_number(matched_variant) IN
       /\ tile_number' = r.value
       /\ raised' = r.raised
    /\ pc' = "done"
    /\ UNCHANGED <<tiles_complete, raw_input, selected_variants, input_pattern,
                   matched_variant, offset, shifted, standardized,
                   restandardized, compressed_input>>

Next ==
    \/ PreprocessInput
    \/ \E pattern \in Selectors : CheckVariants(pattern)
    \/ GetTileNumber

Spec == Init /\ [][Next]_vars

-----------------------------------------------------------------------------
(* The Canonicalizer on every code of six colors *)

\* the strings of six characters over the colors 1..4
Codes == { join(f) : f \in [1 .. 6 -> Colors] }

CanonInit ==
    /\ Idle
    /\ pc = "checked"
    /\ raw_input = <<>>
    /\ matched_variant \in Codes

\* standardized = sort_sol(matched_variant)
SortSol ==
    /\ pc = "checked"
    /\ LET r == sort_sol(matched_variant) IN
       /\ standardized' = r.value
       /\ raised' = r.raised
       /\ pc' = IF r.raised = "" THEN "sorted" ELSE "aborted"
    /\ UNCHANGED <<tiles_complete, raw_input, selected_variants, input_pattern,
                   matched_variant, tile_number, offset, shifted,
                   restandardized, compressed_input>>

\* restandardized = sort_sol(standardized)
SortAgain ==
    /\ pc = "sorted"
    /\ LET r == sort_sol(standardized) IN
       /\ restandardized' = r.value
       /\ raised' = r.raised
       /\ pc' = IF r.raised = "" THEN "resorted" ELSE "aborted"
    /\ UNCHANGED <<tiles_complete, raw_input, selected_variants, input_pattern,
                   matched_variant, tile_number, offset, shifted,
                   standardized, compressed_input>>

\* shifted = shift_tile(matched_variant, k)
ShiftTile(k) ==
    /\ pc = "sorted"
    /\ offset' = k
    /\ shifted' = shift_tile(matched_variant, k)
    /\ pc' = "shifted"
    /\ UNCHANGED <<tiles_complete, raw_input, selected_variants, input_pattern,
                   matched_variant, tile_number, raised, standardized,
                   restandardized, compressed_input>>

\* restandardized = sort_sol(shifted)
SortShifted ==
    /\ pc = "shifted"
    /\ LET r == sort_sol(shifted) IN
       /\ restandardized' = r.value
       /\ raised' = r.raised
       /\ pc' = IF r.raised = "" THEN "shiftsorted" ELSE "aborted"
    /\ UNCHANGED <<tiles_complete, raw_input, selected_variants, input_pattern,
                   matched_variant, tile_number, offset, shifted,
                   standardized, compressed_input>>

CanonNext ==
    \/ GetTileNumber
    \/ SortSol
    \/ SortAgain
    \/ \E k \in 0 .. 5 : ShiftTile(k)
    \/ SortShifted

SpecCanon == CanonInit /\ [][CanonNext]_vars

-----------------------------------------------------------------------------
(* The catalog seen without ambiguity: six single colors per observation *)

\* the colors of an observation without lists, absent entries removed
Branch(raw) ==
    LET cleaned == SelectSeq(raw, LAMBDA entry : entry # <<0>>)
    IN  [i \in 1 .. Len(cleaned) |-> cleaned[i][1]]

\* the six rotations of the entries of the catalog
CatalogRotations ==
    { rotate_string(tiles_complete[n], k) :
          n \in 1 .. Len(tiles_complete), k \in 0 .. 5 }

CatalogInit ==
    /\ Idle
    /\ pc = "start"
    /\ raw_input \in { raw \in Unambiguous :
                           join(Branch(raw)) \in CatalogRotations }
    /\ matched_variant = None

\* match = match_pattern(rotated, pattern), on the one candidate of the
\* observation
MatchPattern(pattern) ==
    /\ pc = "preprocessed"
    /\ \E variant \in selected_variants :
          /\ compressed_input' = variant
          /\ matched_variant' = match_pattern(variant, pattern)
    /\ input_pattern' = pattern
    /\ pc' = "checked"
    /\ UNCHANGED <<tiles_complete, raw_input, selected_variants, tile_number, raised, offset,
                   shifted, standardized, restandardized>>

CatalogNext ==
    \/ PreprocessInput
    \/ \E pattern \in Registry : MatchPattern(pattern)
    \/ GetTileNumber

SpecCatalog == CatalogInit /\ [][CatalogNext]_vars

-----------------------------------------------------------------------------
(* Properties *)

\* a well-formed full tile code: six characters, exactly three distinct
\* colors, each exactly twice
WellFormed(code) ==
    /\ Len(code) = 6
    /\ Cardinality(CharsOf(code)) = 3
    /\ \A ch \in CharsOf(code) :
           Cardinality({ r \in 0 .. 5 : At(code, r) = ch }) = 2

\* every color of the code sits on two opposite edges (three positions apart)
AllOpposite(code) ==
    \A r \in 0 .. 2 : At(code, r) = At(code, r + 3)

\* C1: whenever check_variants returned a full code, get_tile_number raises
\* nothing and returns an index of the catalog, 0..55.
C1_NoUnknownTileCode ==
    (pc = "done" /\ matched_variant # None)
        => (raised = "" /\ tile_number \in 0 .. 55)

\* C1 happens: a full code matched under the default list was looked up.
C1_Witness ==
    /\ pc = "done"
    /\ input_pattern = None
    /\ matched_variant # None
    /\ tile_number \in 0 .. 55

\* C2: preprocess_input raises no error on any raw observation.
C2_NormalizerNeverFails ==
    ~(pc = "aborted" /\ raised # "")

\* C3: on a well-formed code, sort_sol applied to the result of sort_sol
\* returns that result.
C3_Idempotent ==
    (pc = "resorted" /\ WellFormed(matched_variant))
        => restandardized = standardized

\* C3 happens: a well-formed code was rotated by sort_sol and sorted again.
C3_Witness ==
    /\ pc = "resorted"
    /\ WellFormed(matched_variant)
    /\ standardized # matched_variant

\* C4, as claimed: on every well-formed code, sort_sol of any rotation of the
\* code is sort_sol of the code.
C4_UniqueCanonical ==
    (pc = "shiftsorted" /\ WellFormed(matched_variant))
        => restandardized = standardized

\* C4, amended: on every well-formed code whose colors do not all sit on
\* opposite edges, sort_sol of any rotation of the code is sort_sol of the
\* code.
C4_UniqueCanonicalUnlessOpposite ==
    (pc = "shiftsorted" /\ WellFormed(matched_variant)
        /\ ~AllOpposite(matched_variant))
        => restandardized = standardized

\* C4 happens: a well-formed code, rotated by a non-zero offset, was sorted.
C4_Witness ==
    /\ pc = "shiftsorted"
    /\ WellFormed(matched_variant)
    /\ ~AllOpposite(matched_variant)
    /\ offset # 0
    /\ shifted # matched_variant

\* C5: every entry E of the catalog has a rotation R and a registry template
\* such that match_pattern on the run-compressed R returns exactly R, and
\* sort_sol of that result is E.
C5_CatalogReachable ==
    (pc = "start" /\ \E n \in 1 .. Len(tiles_complete) :
                        tiles_complete[n] = join(Branch(raw_input)))
        => \E k \in 0 .. 5, pattern \in Registry :
              LET R == rotate_string(Branch(raw_input), k) IN
              /\ match_pattern(join(compress(R)), pattern) = join(R)
              /\ sort_sol(join(R)) = Return(join(Branch(raw_input)))

\* C5 happens: match_pattern returned exactly the rotation observed, and the
\* lookup of its sort_sol gave a catalog entry that is not the rotation itself.
C5_Witness ==
    /\ pc = "done"
    /\ matched_variant = join(Branch(raw_input))
    /\ compressed_input = join(compress(Branch(raw_input)))
    /\ raised = ""
    /\ tile_number \in 0 .. 55
    /\ tiles_complete[tile_number + 1] # matched_variant

\* C6, as claimed: for the observation of main, some candidate binds under
\* some rotation against "abacbc" to the full code 313414.
C6_MainYields313414 ==
    (pc = "preprocessed" /\ raw_input = MainInput)
        => \E v \in selected_variants : \E k \in 0 .. Len(v) - 1 :
              match_pattern(rotate_string(v, k), "abacbc") = "313414"

\* C6, amended: for the observation of main, some candidate binds under some
\* rotation against "abacbc" to the full code 343141.
C6_MainYields343141 ==
    (pc = "preprocessed" /\ raw_input = MainInput)
        => \E v \in selected_variants : \E k \in 0 .. Len(v) - 1 :
              match_pattern(rotate_string(v, k), "abacbc") = "343141"

\* C6 happens: check_variants returned 343141 for main's observation under
\* "abacbc".
C6_Witness ==
    /\ pc = "checked"
    /\ raw_input = MainInput
    /\ input_pattern = "abacbc"
    /\ matched_variant = "343141"

\* C7: for a code that is no rotation of a catalog entry, get_tile_number
\* ends in the lookup failure (ValueError of tiles_complete.index).
C7_LookupFailureReported ==
    (pc = "done" /\ matched_variant \notin CatalogRotations)
        => raised = "ValueError"

\* C8: every entry of the catalog is a well-formed full tile code.
C8_CatalogWellFormed ==
    \A n \in 1 .. Len(tiles_complete) : WellFormed(tiles_complete[n])

\* C8 happens: an entry of the catalog is the code observed and was found by
\* the lookup.
C8_Witness ==
    /\ pc = "done"
    /\ tile_number \in 0 .. 55
    /\ tiles_complete[tile_number + 1] = join(Branch(raw_input))

\* C9, as claimed: compress of the branch [3, 3, 4, 4, 3] is [3, 4, 3].
C9_CompressKeepsLast ==
    (pc = "preprocessed" /\ raw_input = Branch33443)
        => /\ compress(Branch(raw_input)) = <<3, 4, 3>>
           /\ selected_variants = {"343"}

\* C9, amended: compress of the branch [3, 3, 4, 4, 3] is [3, 4]: the last
\* element equals the first and is removed.
C9_CompressDropsLast ==
    (pc = "preprocessed" /\ raw_input = Branch33443)
        => /\ compress(Branch(raw_input)) = <<3, 4>>
           /\ selected_variants = {"34"}

\* C9 happens: preprocess_input returned on the branch [3, 3, 4, 4, 3].
C9_Witness ==
    /\ pc = "preprocessed"
    /\ Branch(raw_input) = <<3, 3, 4, 4, 3>>

C11_OrderIrrelevant ==
    (pc = "done" /\ input_pattern \in Registry)
        => \A other \in check_variants(selected_variants, input_pattern) :
              get_tile_number(other) = [raised |-> raised, value |-> tile_number]

\* C11, amended: under a registry selector, every enumeration order of the
\* candidate set yields no-match, or every one yields a full code whose
\* lookup returns a tile number; which tile number depends on the order.
C11_OrderDecidesOnlyTheWinner ==
    (pc = "done" /\ input_pattern \in Registry)
        => \A other \in check_variants(selected_variants, input_pattern) :
              /\ (other = None) <=> (matched_variant = None)
              /\ get_tile_number(other).raised = raised
              /\ (get_tile_number(other).value = NoNumber)
                    <=> (tile_number = NoNumber)

\* C11 happens: a tile number was returned where another enumeration order
\* of the same candidates returns a different one.
C11_Witness ==
    /\ pc = "done"
    /\ input_pattern \in Registry
    /\ tile_number \in 0 .. 55
    /\ \E other \in check_variants(selected_variants, input_pattern) :
          /\ other # matched_variant
          /\ get_tile_number(other).value \in 0 .. 55
          /\ get_tile_number(other).value # tile_number

====
